---- MODULE Spec2Model ----
(***************************************************************************)
(* A model of the local content-addressed byte store of                    *)
(* src/rust/engine/fs/store/src/local.rs: the router (ByteStore) over two  *)
(* key-value databases (file_lmdb, directory_lmdb) and the sharded         *)
(* filesystem database (file_fsdb, ShardedFSDB).                           *)
(*                                                                         *)
(* Every awaited call is taken at its completion: `write_all(..).await`    *)
(* leaves the whole buffer in the file, `rename(..).await` has renamed.    *)
(* Between two awaits of one operation any other operation may run, the    *)
(* operation may be cancelled, or it may fail with an I/O error.           *)
(***************************************************************************)
EXTENDS Integers, Sequences, FiniteSets, TLC

(***************************************************************************)
(* Bounds of the model.                                                    *)
(***************************************************************************)
\* Clock ticks per second: Duration::as_secs truncates to whole seconds.
TicksPerSec == 2
\* Ticks the clock may run beyond the first instant at which a blob stored
\* at the start has an expired_seconds_ago of 1.
Slack == 0
\* Router calls other than shrink (store_bytes, store, remove, lease_all and
\* the queries) per behaviour, and the calls of shrink per behaviour.
MaxCalls == 2
MaxShrinks == 1
\* Queries (entry_type, get_missing_digests, load_bytes_with) a behaviour may
\* make beyond its MaxCalls calls.
MaxQueries == 1
\* Rewrites of the source file by its owner per behaviour.
MaxMutations == 2

(***************************************************************************)
(* Program constants.                                                      *)
(***************************************************************************)
LARGE_FILE_SIZE_LIMIT == 512 * 1024

\* options.lease_time, in ticks (one second).
lease_time == 1 * TicksPerSec

\* The mode persist sets, 0o555, and the mode NamedTempFile creates, 0o600.
MODE_IMMUTABLE == 5 * 64 + 5 * 8 + 5
MODE_TEMP == 6 * 64

\* `if attempts > 10` of ShardedFSDB::store.
MAX_ATTEMPTS == 10

StartTime == TicksPerSec
MaxTime == StartTime + lease_time + TicksPerSec + Slack

(***************************************************************************)
(* Byte strings, fingerprints and digests.                                 *)
(***************************************************************************)
File == "File"
Directory == "Directory"
EntryType == {File, Directory}

\* A byte string is its length and a tag telling apart contents of one length.
MkBytes(n, t) == [len |-> n, tag |-> t]
EmptyBytes == MkBytes(0, 0)
SmallBytes == MkBytes(LARGE_FILE_SIZE_LIMIT - 1, 0)
LimitBytes == MkBytes(LARGE_FILE_SIZE_LIMIT, 0)
LargeBytes == MkBytes(4 * 1024 * 1024, 0)
Bytes == {EmptyBytes, SmallBytes, LimitBytes, LargeBytes}

\* The fingerprint of a byte string: injective on Bytes, as SHA-256 is taken
\* to be on the contents the store ever sees.
Sha256(b) == (b.len % 97) * 4 + b.tag
Fingerprint == {Sha256(b) : b \in Bytes}

Digest(h, n) == [hash |-> h, size_bytes |-> n]
DigestOf(b) == Digest(Sha256(b), b.len)
EMPTY_DIGEST == DigestOf(EmptyBytes)

\* The routing predicate with `>` for `>=`.
should_use_fsdb_Greater(entry_type, len) ==
  entry_type = File /\ len > 512 * 1024

\* The routing predicate without its test of the length.
should_use_fsdb_AnyLength(entry_type, len) == entry_type = File

\* ByteStore::should_use_fsdb
should_use_fsdb(entry_type, len) ==
  entry_type = File /\ len >= LARGE_FILE_SIZE_LIMIT

(***************************************************************************)
(* State.                                                                  *)
(***************************************************************************)
Procs == {"p1", "p2"}

NoEntry == [present |-> FALSE]
NoFile == [exists |-> FALSE]

VARIABLES
  now,             \* the wall clock, in ticks
  file_lmdb,       \* InnerStore.file_lmdb: [open, db: Fingerprint -> entry]
  directory_lmdb,  \* InnerStore.directory_lmdb
  file_fsdb,       \* the final paths of the FSDB: Fingerprint -> file
  tmp_leaked,      \* shards holding a temp file no operation owns any more
  src,             \* the content of the source file handed to `store`
  task,            \* the operation each process is in, and its locals
  last,            \* the call that returned most recently, and its result
  acked,           \* (via, kind, bytes) of the stores that returned Ok and whose
                   \* entry no remove or shrink has deleted since
  calls,           \* router calls other than shrink made so far
  shrinks,         \* calls of shrink made so far
  mutations        \* rewrites of the source made so far

store_vars == <<file_lmdb, directory_lmdb, file_fsdb, tmp_leaked>>
vars == <<now, file_lmdb, directory_lmdb, file_fsdb, tmp_leaked, src, task,
          last, acked, calls, shrinks, mutations>>

\* ShardedFSDB::get_path: <root>/<first two hex digits>/<hex>
Shard(fingerprint) == fingerprint \div 16
get_path(fingerprint) == [shard |-> Shard(fingerprint), name |-> fingerprint]

\* Where a shrink took its snapshot (kept for the properties): the process,
\* the number of calls begun, the clock and the other processes' calls.
NoAt == [proc |-> "none", begun |-> 0, now |-> 0, others |-> {}]

\* Where a store to the FSDB that repeats the call before it began (kept for
\* the properties): the process, the number of calls begun and the clock.
Began(p, t) ==
  IF /\ last.op = t.op /\ last.ok /\ last.id + 1 = t.id
     /\ last.kind = t.kind /\ last.digest = t.digest
     /\ \A q \in Procs : task[q].pc = "idle"
  THEN [NoAt EXCEPT !.proc = p, !.begun = t.id, !.now = now]
  ELSE NoAt

At(p, begun) ==
  [proc |-> p, begun |-> begun, now |-> now,
   others |-> {[proc |-> q, task |-> task[q]] : q \in Procs \ {p}}]

IdleTask ==
  [pc |-> "idle", op |-> "none", id |-> 0, kind |-> File,
   digest |-> EMPTY_DIGEST, initial_lease |-> FALSE, src_is_immutable |-> FALSE,
   attempts |-> 0, tmp |-> NoFile, heap |-> {}, snapshot |-> {},
   used_bytes |-> 0, target_bytes |-> 0, compact |-> FALSE, at |-> NoAt,
   items |-> <<>>, done |-> <<>>]

\* What a call returned: `ok` is Ok(..) against Err(..); `flag` is the bool of
\* remove's Ok(bool), and for shrink whether it compacted; `heap` is what a
\* shrink left of its snapshot; `items` is what a failed lease_all left of
\* its iterator, the item that failed first, and `done` the items it leased.
NoCall ==
  [op |-> "none", id |-> 0, kind |-> File, digest |-> EMPTY_DIGEST,
   initial_lease |-> FALSE, ok |-> TRUE,
   used_bytes |-> 0, target_bytes |-> 0, flag |-> FALSE, panicked |-> FALSE,
   snapshot |-> {}, heap |-> {}, at |-> NoAt, digests |-> {}, result |-> {},
   items |-> <<>>, done |-> <<>>]

\* ShardedLmdb::new: Ok(database), or the error InnerStore keeps
NewLmdb(opened) == [open |-> opened, db |-> [f \in Fingerprint |-> NoEntry]]

\* ByteStore::new_with_options, with each KV database opening or failing
InitWith(opens) ==
  /\ now = StartTime
  /\ \E o \in opens : file_lmdb = NewLmdb(o)
  /\ \E o \in opens : directory_lmdb = NewLmdb(o)
  /\ file_fsdb = [f \in Fingerprint |-> NoFile]
  /\ tmp_leaked = {}
  /\ src \in Bytes
  /\ task = [p \in Procs |-> IdleTask]
  /\ last = NoCall
  /\ acked = {}
  /\ calls = 0
  /\ shrinks = 0
  /\ mutations = 0

\* Both KV databases opened.
Init == InitWith({TRUE})

\* Each KV database opened or failed to.
InitPartial == InitWith(BOOLEAN)

(***************************************************************************)
(* The key-value backend (ShardedLmdb), a byte map with leases.  Its code  *)
(* is not in local.rs; it is modelled from its description: a store of     *)
(* a key already present leaves the bytes as they are, a lease is kept as  *)
(* the instant it runs out, an entry stored without a lease has none.      *)
(***************************************************************************)
LmdbEntry(bytes, lease_until) ==
  [present |-> TRUE, bytes |-> bytes, lease_until |-> lease_until]

\* ShardedLmdb::exists_batch
LmdbExistsBatch(lmdb, fingerprints) ==
  {f \in fingerprints : lmdb.db[f].present}

\* ShardedLmdb::store_bytes_batch, one item
LmdbStoreBytes(lmdb, fingerprint, bytes, initial_lease, t) ==
  LET old == lmdb.db[fingerprint]
      kept == IF old.present THEN old.bytes ELSE bytes
      until == IF initial_lease THEN t + lease_time
               ELSE IF old.present THEN old.lease_until ELSE 0
  IN [lmdb EXCEPT !.db[fingerprint] = LmdbEntry(kept, until)]

\* ShardedLmdb::lease
LmdbLease(lmdb, fingerprint, t) ==
  IF lmdb.db[fingerprint].present
  THEN [lmdb EXCEPT !.db[fingerprint].lease_until = t + lease_time]
  ELSE lmdb

\* ShardedLmdb::remove
LmdbRemove(lmdb, fingerprint) == [lmdb EXCEPT !.db[fingerprint] = NoEntry]

AgedFingerprint(expired, fingerprint, size) ==
  [expired_seconds_ago |-> expired, fingerprint |-> fingerprint,
   size_bytes |-> size]

\* ShardedLmdb::all_fingerprints
LmdbAgedFingerprints(lmdb, t) ==
  {AgedFingerprint(
     IF t >= lmdb.db[f].lease_until
     THEN (t - lmdb.db[f].lease_until) \div TicksPerSec ELSE 0,
     f, lmdb.db[f].bytes.len) : f \in {g \in Fingerprint : lmdb.db[g].present}}

(***************************************************************************)
(* The filesystem backend (ShardedFSDB).                                   *)
(***************************************************************************)
FsFile(content, mode, mtime) ==
  [exists |-> TRUE, content |-> content, mode |-> mode, mtime |-> mtime]

\* The temp files in the shard directories: those of running operations and
\* those left behind.
TempShards ==
  {Shard(task[p].digest.hash) : p \in {q \in Procs : task[q].tmp.exists}}
    \cup tmp_leaked

\* ShardedFSDB::exists_batch
FsdbExistsBatch(fingerprints) == {f \in fingerprints : file_fsdb[f].exists}

\* expired_seconds_ago measured from the mtime itself, not from the end of
\* the lease.
FsdbExpiredSecondsAgo_NoLease(mtime, t) ==
  IF t >= mtime THEN (t - mtime) \div TicksPerSec ELSE 0

\* expired_seconds_ago of aged_fingerprints
FsdbExpiredSecondsAgo(mtime, t) ==
  LET expiration_time == t - lease_time
  IN IF expiration_time >= mtime
     THEN (expiration_time - mtime) \div TicksPerSec
     ELSE 0

\* ShardedFSDB::aged_fingerprints: an error when a directory entry's name is
\* no fingerprint, which is so for every temp file.
FsdbAgedOk == TempShards = {}
FsdbAgedFingerprints(t) ==
  {AgedFingerprint(FsdbExpiredSecondsAgo(file_fsdb[f].mtime, t), f,
                   file_fsdb[f].content.len) :
     f \in {g \in Fingerprint : file_fsdb[g].exists}}

\* A rename that leaves a file already at the final path as it is.
PersistRename_KeepExisting(fsdb, fingerprint, tmp) ==
  IF fsdb[fingerprint].exists THEN fsdb
  ELSE [fsdb EXCEPT ![fingerprint] = FsFile(tmp.content, tmp.mode, tmp.mtime)]

\* TempImmutableLargeFile::persist, first step
PersistRename(fsdb, fingerprint, tmp) ==
  [fsdb EXCEPT ![fingerprint] = FsFile(tmp.content, tmp.mode, tmp.mtime)]

\* TempImmutableLargeFile::persist, second step
PersistSetPermissions(fsdb, fingerprint) ==
  [fsdb EXCEPT ![fingerprint].mode = MODE_IMMUTABLE]

(***************************************************************************)
(* The router's view of the three backends.                                *)
(***************************************************************************)
Lmdb(entry_type) == IF entry_type = Directory THEN directory_lmdb ELSE file_lmdb

\* The backend the routing predicate selects.
Backend(entry_type, len) ==
  IF should_use_fsdb(entry_type, len) THEN "file_fsdb"
  ELSE IF entry_type = Directory THEN "directory_lmdb" ELSE "file_lmdb"

Present(backend, fingerprint) ==
  CASE backend = "file_fsdb" -> file_fsdb[fingerprint].exists
    [] backend = "file_lmdb" -> file_lmdb.db[fingerprint].present
    [] backend = "directory_lmdb" -> directory_lmdb.db[fingerprint].present

NoneResult == [ok |-> TRUE, some |-> FALSE]
SomeResult(bytes) == [ok |-> TRUE, some |-> TRUE, bytes |-> bytes]
ErrResult == [ok |-> FALSE]

\* len_checked_f comparing with `<` for `==`.
len_checked_f_Less(digest, bytes) ==
  IF bytes.len < digest.size_bytes THEN SomeResult(bytes) ELSE ErrResult

\* len_checked_f without the comparison of lengths.
len_checked_f_Unchecked(digest, bytes) == SomeResult(bytes)

\* len_checked_f of load_bytes_with, with f the identity
len_checked_f(digest, bytes) ==
  IF bytes.len = digest.size_bytes THEN SomeResult(bytes) ELSE ErrResult

\* load_bytes_with without its early return for EMPTY_DIGEST.
load_bytes_with_NoEarlyReturn(entry_type, digest) ==
  IF should_use_fsdb(entry_type, digest.size_bytes)
  THEN IF file_fsdb[digest.hash].exists
       THEN len_checked_f(digest, file_fsdb[digest.hash].content)
       ELSE NoneResult
  ELSE IF ~Lmdb(entry_type).open THEN ErrResult
  ELSE IF Lmdb(entry_type).db[digest.hash].present
       THEN len_checked_f(digest, Lmdb(entry_type).db[digest.hash].bytes)
       ELSE NoneResult

\* ByteStore::load_bytes_with, with f the identity
load_bytes_with(entry_type, digest) ==
  IF digest = EMPTY_DIGEST THEN SomeResult(EmptyBytes)
  ELSE IF should_use_fsdb(entry_type, digest.size_bytes)
  THEN IF file_fsdb[digest.hash].exists
       THEN len_checked_f(digest, file_fsdb[digest.hash].content)
       ELSE NoneResult
  ELSE IF ~Lmdb(entry_type).open THEN ErrResult
  ELSE IF Lmdb(entry_type).db[digest.hash].present
       THEN len_checked_f(digest, Lmdb(entry_type).db[digest.hash].bytes)
       ELSE NoneResult

(***************************************************************************)
(* Steps shared by the operations.                                         *)
(***************************************************************************)
SetLmdb(entry_type, lmdb) ==
  IF entry_type = Directory
  THEN directory_lmdb' = lmdb /\ UNCHANGED file_lmdb
  ELSE file_lmdb' = lmdb /\ UNCHANGED directory_lmdb

Idle(p) == task[p].pc = "idle"

\* A call begins: it gets the next call number.  Processes are alike, so a
\* call is given to the first idle one.
Begin(p) ==
  /\ Idle(p)
  /\ p = "p1" \/ ~Idle("p1")
  /\ calls < MaxCalls
  /\ calls' = calls + 1
  /\ UNCHANGED shrinks

\* A query begins: it may follow MaxCalls other calls.
BeginQuery(p) ==
  /\ Idle(p)
  /\ p = "p1" \/ ~Idle("p1")
  /\ calls < MaxCalls + MaxQueries
  /\ calls' = calls + 1
  /\ UNCHANGED shrinks

BeginShrink(p) ==
  /\ Idle(p)
  /\ p = "p1" \/ ~Idle("p1")
  /\ shrinks < MaxShrinks
  /\ shrinks' = shrinks + 1
  /\ UNCHANGED calls

Returned(t, ok) ==
  [NoCall EXCEPT !.op = t.op, !.id = t.id, !.kind = t.kind,
                 !.digest = t.digest, !.initial_lease = t.initial_lease,
                 !.ok = ok]

\* The call of process p returns.
Return(p, result) ==
  /\ task' = [task EXCEPT ![p] = IdleTask]
  /\ last' = result

NewTask(op, entry_type, digest) ==
  [IdleTask EXCEPT !.op = op, !.id = calls + shrinks + 1, !.kind = entry_type,
                   !.digest = digest]

Ack(via, entry_type, bytes) ==
  [via |-> via, kind |-> entry_type, bytes |-> bytes]

\* The acknowledged stores that an entry deleted from `backend` under
\* `fingerprint` takes away.
Unacked(backend, fingerprint) ==
  {a \in acked : /\ Backend(a.kind, a.bytes.len) = backend
                 /\ Sha256(a.bytes) = fingerprint}

(***************************************************************************)
(* ByteStore::store_bytes, that is store_bytes_batch of one item.          *)
(***************************************************************************)
StoreBytes(p, entry_type, bytes, initial_lease) ==
  LET fingerprint == Sha256(bytes)
      t == [NewTask("store_bytes", entry_type, DigestOf(bytes))
              EXCEPT !.initial_lease = initial_lease]
  IN
  /\ Begin(p)
  /\ UNCHANGED <<now, file_fsdb, tmp_leaked, src, mutations>>
  /\ IF ~Lmdb(entry_type).open
     THEN \* `lmdb_dbs?`
          /\ Return(p, Returned(t, FALSE))
          /\ UNCHANGED <<file_lmdb, directory_lmdb, acked>>
     ELSE IF should_use_fsdb(entry_type, bytes.len)
     THEN \* the item is the FSDB's; the KV batch is empty
          /\ task' = [task EXCEPT ![p] =
                        [t EXCEPT !.pc = "tempfile",
                                  !.at = Began(p, t)]]
          /\ UNCHANGED <<file_lmdb, directory_lmdb, last, acked>>
     ELSE \* the item is the KV database's; its transaction commits or fails
          \E failed \in BOOLEAN :
            IF failed
            THEN /\ Return(p, Returned(t, FALSE))
                 /\ UNCHANGED <<file_lmdb, directory_lmdb, acked>>
            ELSE /\ SetLmdb(entry_type,
                       LmdbStoreBytes(Lmdb(entry_type), fingerprint, bytes,
                                      initial_lease, now))
                 /\ Return(p, Returned(t, TRUE))
                 /\ acked' = acked \cup {Ack("store_bytes", entry_type, bytes)}

(***************************************************************************)
(* ShardedFSDB::store_bytes_batch (one item) and ShardedFSDB::store.       *)
(***************************************************************************)
\* The bytes a store_bytes task writes: those of its digest.
BytesOf(digest) == CHOOSE b \in Bytes : DigestOf(b) = digest

\* ShardedFSDB::get_tempfile
GetTempfile(p) ==
  /\ task[p].pc = "tempfile"
  /\ task' = [task EXCEPT ![p].tmp = FsFile(EmptyBytes, MODE_TEMP, now),
                          ![p].pc = "open"]
  /\ UNCHANGED <<now, store_vars, src, last, acked, calls, shrinks, mutations>>

\* open() creating the file at the final path instead of the temp path.
Open_InPlace(p) ==
  /\ task[p].pc = "open"
  /\ file_fsdb' = [file_fsdb EXCEPT ![task[p].digest.hash] =
                     FsFile(EmptyBytes, MODE_TEMP, now)]
  /\ task' = [task EXCEPT ![p].pc = IF task[p].op = "store_bytes"
                                    THEN "write" ELSE "copy"]
  /\ UNCHANGED <<now, file_lmdb, directory_lmdb, tmp_leaked, src, last, acked,
                 calls, shrinks, mutations>>

\* TempImmutableLargeFile::open: File::create truncates the temp file.
Open(p) ==
  /\ task[p].pc = "open"
  /\ task' = [task EXCEPT ![p].tmp = FsFile(EmptyBytes, MODE_TEMP, now),
                          ![p].pc = IF task[p].op = "store_bytes"
                                    THEN "write" ELSE "copy"]
  /\ UNCHANGED <<now, store_vars, src, last, acked, calls, shrinks, mutations>>

\* dest.write_all(bytes)
WriteAll(p) ==
  /\ task[p].pc = "write"
  /\ task' = [task EXCEPT ![p].tmp.content = BytesOf(task[p].digest),
                          ![p].tmp.mtime = now,
                          ![p].pc = "rename"]
  /\ UNCHANGED <<now, store_vars, src, last, acked, calls, shrinks, mutations>>

\* hashing::async_verified_copy: whether the copy is to be kept.
async_verified_copy(expected_digest, src_is_immutable, content) ==
  src_is_immutable \/ Sha256(content) = expected_digest.hash

\* The loop of ShardedFSDB::store keeping a copy whatever should_retry says.
VerifiedCopy_NoRetry(p) ==
  /\ task[p].pc = "copy"
  /\ task' = [task EXCEPT ![p].tmp = [task[p].tmp EXCEPT !.content = src,
                                                        !.mtime = now],
                          ![p].pc = "rename"]
  /\ UNCHANGED <<now, file_lmdb, directory_lmdb, file_fsdb, tmp_leaked, src,
                 last, acked, calls, shrinks, mutations>>

\* One turn of the loop of ShardedFSDB::store.
VerifiedCopy(p) ==
  LET should_retry ==
        ~async_verified_copy(task[p].digest, task[p].src_is_immutable, src)
      attempts == task[p].attempts + 1
      copied == [task[p].tmp EXCEPT !.content = src, !.mtime = now]
  IN
  /\ task[p].pc = "copy"
  /\ UNCHANGED <<now, file_lmdb, directory_lmdb, file_fsdb, src, acked, calls,
                 shrinks, mutations>>
  /\ IF should_retry
     THEN IF attempts > MAX_ATTEMPTS
          THEN /\ Return(p, Returned(task[p], FALSE))
               /\ tmp_leaked' = tmp_leaked \cup {Shard(task[p].digest.hash)}
          ELSE /\ task' = [task EXCEPT ![p].tmp = copied,
                                       ![p].attempts = attempts,
                                       ![p].pc = "open"]
               /\ UNCHANGED <<tmp_leaked, last>>
     ELSE /\ task' = [task EXCEPT ![p].tmp = copied, ![p].pc = "rename"]
          /\ UNCHANGED <<tmp_leaked, last>>

\* persist: tokio::fs::rename
Rename(p) ==
  /\ task[p].pc = "rename"
  /\ file_fsdb' = PersistRename(file_fsdb, task[p].digest.hash, task[p].tmp)
  /\ task' = [task EXCEPT ![p].tmp = NoFile, ![p].pc = "chmod"]
  /\ UNCHANGED <<now, file_lmdb, directory_lmdb, tmp_leaked, src, last, acked,
                 calls, shrinks, mutations>>

\* persist: tokio::fs::set_permissions, after which the store returns.
SetPermissions(p) ==
  LET fingerprint == task[p].digest.hash
  IN
  /\ task[p].pc = "chmod"
  /\ UNCHANGED <<now, file_lmdb, directory_lmdb, tmp_leaked, src, calls,
                 shrinks, mutations>>
  /\ IF file_fsdb[fingerprint].exists
     THEN /\ file_fsdb' = PersistSetPermissions(file_fsdb, fingerprint)
          /\ Return(p, Returned(task[p], TRUE))
          /\ acked' = acked \cup
               {Ack(task[p].op, task[p].kind, BytesOf(task[p].digest))}
     ELSE /\ Return(p, Returned(task[p], FALSE))
          /\ UNCHANGED <<file_fsdb, acked>>

InFsdbStore(p) ==
  task[p].pc \in {"tempfile", "open", "write", "copy", "rename", "chmod"}

\* The await a store is at fails with an I/O error, or the store is cancelled
\* there: its temp file stays where it is.
Abort(p, cancelled) ==
  /\ InFsdbStore(p) \/ task[p].pc \in {"lmdb_store", "shrink_loop", "lease_loop"}
  /\ tmp_leaked' = IF task[p].tmp.exists
                   THEN tmp_leaked \cup {Shard(task[p].digest.hash)}
                   ELSE tmp_leaked
  /\ task' = [task EXCEPT ![p] = IdleTask]
  /\ last' = IF cancelled THEN last ELSE Returned(task[p], FALSE)
  /\ UNCHANGED <<now, file_lmdb, directory_lmdb, file_fsdb, src, acked, calls,
                 shrinks, mutations>>

\* The process is killed: every running operation ends where it is.
Crash ==
  /\ \E p \in Procs : ~Idle(p)
  /\ tmp_leaked' = tmp_leaked \cup
       {Shard(task[p].digest.hash) : p \in {q \in Procs : task[q].tmp.exists}}
  /\ task' = [p \in Procs |-> IdleTask]
  /\ UNCHANGED <<now, file_lmdb, directory_lmdb, file_fsdb, src, last, acked,
                 calls, shrinks, mutations>>

(***************************************************************************)
(* ByteStore::store                                                        *)
(***************************************************************************)
\* hashing::async_copy_and_hash over the source as it is now
async_copy_and_hash(content) == DigestOf(content)

\* The hashing pass, then the dispatch on the routing predicate.
Store(p, entry_type, initial_lease, src_is_immutable) ==
  LET digest == async_copy_and_hash(src)
      t == [NewTask("store", entry_type, digest)
              EXCEPT !.initial_lease = initial_lease,
                     !.src_is_immutable = src_is_immutable]
  IN
  /\ Begin(p)
  /\ UNCHANGED <<now, store_vars, src, acked, mutations>>
  /\ IF should_use_fsdb(entry_type, digest.size_bytes)
     THEN /\ task' = [task EXCEPT ![p] = [t EXCEPT !.pc = "tempfile"]]
          /\ UNCHANGED last
     ELSE IF ~Lmdb(entry_type).open
     THEN Return(p, Returned(t, FALSE))
     ELSE /\ task' = [task EXCEPT ![p] = [t EXCEPT !.pc = "lmdb_store"]]
          /\ UNCHANGED last

\* ShardedLmdb::store: the source is read again and its bytes are stored when
\* they are the expected ones; a source that changed, or a failed
\* transaction, is an error.
LmdbStoreOk(expected_digest, src_is_immutable, content, failed) ==
  ~failed /\ async_verified_copy(expected_digest, src_is_immutable, content)

\* What ByteStore::store returns once dbs.store(..) has returned: `let _ =`
\* drops its result.
StoreResultAfterLmdb(t, stored) == Returned(t, TRUE)

\* `let _ = dbs.store(..).await; Ok(digest)`
LmdbStore(p) ==
  \E failed \in BOOLEAN :
    LET t == task[p]
        stored == LmdbStoreOk(t.digest, t.src_is_immutable, src, failed)
        result == StoreResultAfterLmdb(t, stored)
    IN
    /\ t.pc = "lmdb_store"
    /\ IF stored
       THEN SetLmdb(t.kind, LmdbStoreBytes(Lmdb(t.kind), t.digest.hash, src,
                                           t.initial_lease, now))
       ELSE UNCHANGED <<file_lmdb, directory_lmdb>>
    /\ Return(p, result)
    /\ acked' = IF result.ok
                THEN acked \cup {Ack("store", t.kind, BytesOf(t.digest))}
                ELSE acked
    /\ UNCHANGED <<now, file_fsdb, tmp_leaked, src, calls, shrinks, mutations>>

\* The owner of the source file rewrites it; not while a store that was told
\* the source is immutable reads it.
MutateSrc(bytes) ==
  /\ mutations < MaxMutations
  /\ bytes # src
  /\ \A p \in Procs : ~(task[p].op = "store" /\ task[p].src_is_immutable)
  /\ src' = bytes
  /\ mutations' = mutations + 1
  /\ UNCHANGED <<now, store_vars, task, last, acked, calls, shrinks>>

Tick ==
  /\ now < MaxTime
  /\ now' = now + 1
  /\ UNCHANGED <<store_vars, src, task, last, acked, calls, shrinks, mutations>>

(***************************************************************************)
(* ByteStore::remove and ByteStore::lease_all                              *)
(***************************************************************************)
\* ShardedFSDB::remove
FsdbRemove(fsdb, fingerprint) == [fsdb EXCEPT ![fingerprint] = NoFile]

\* remove without the arm for large files: every File goes to the file KV
\* database.
RemoveFrom_NoFsdbArm(entry_type, digest) ==
  /\ SetLmdb(entry_type, LmdbRemove(Lmdb(entry_type), digest.hash))
  /\ UNCHANGED file_fsdb
  /\ acked' = IF Present(Backend(entry_type, digest.size_bytes), digest.hash)
              THEN acked \ Unacked(Backend(entry_type, digest.size_bytes),
                                   digest.hash)
              ELSE acked

\* The effect of ByteStore::remove on the three backends.
RemoveFrom(entry_type, digest) ==
  LET backend == Backend(entry_type, digest.size_bytes)
  IN
  /\ IF backend = "file_fsdb"
     THEN /\ file_fsdb' = FsdbRemove(file_fsdb, digest.hash)
          /\ UNCHANGED <<file_lmdb, directory_lmdb>>
     ELSE /\ SetLmdb(entry_type, LmdbRemove(Lmdb(entry_type), digest.hash))
          /\ UNCHANGED file_fsdb
  /\ acked' = IF Present(backend, digest.hash)
              THEN acked \ Unacked(backend, digest.hash)
              ELSE acked

\* Whether ByteStore::remove fails: only on a KV database that did not open.
RemoveOk(entry_type, digest) ==
  should_use_fsdb(entry_type, digest.size_bytes) \/ Lmdb(entry_type).open

Remove(p, entry_type, digest) ==
  LET t == NewTask("remove", entry_type, digest)
  IN
  /\ Begin(p)
  /\ UNCHANGED <<now, tmp_leaked, src, mutations>>
  /\ IF RemoveOk(entry_type, digest)
     THEN /\ RemoveFrom(entry_type, digest)
          /\ Return(p, [Returned(t, TRUE) EXCEPT !.flag =
                          Present(Backend(entry_type, digest.size_bytes),
                                  digest.hash)])
     ELSE /\ Return(p, Returned(t, FALSE))
          /\ UNCHANGED <<file_lmdb, directory_lmdb, file_fsdb, acked>>

\* ShardedFSDB::lease: set_mtime to now
FsdbLease(fsdb, fingerprint, t) == [fsdb EXCEPT ![fingerprint].mtime = t]

\* An item of the iterator handed to lease_all.
LeaseItem(digest, entry_type) == [entry_type |-> entry_type, digest |-> digest]

\* Whether the lease of an item succeeds: set_mtime fails on a path that is
\* not there, a KV database that did not open gives its error.
LeaseOk(item) ==
  IF should_use_fsdb(item.entry_type, item.digest.size_bytes)
  THEN file_fsdb[item.digest.hash].exists
  ELSE Lmdb(item.entry_type).open

\* lease_all without the arm for large files: every item is leased on a KV
\* database.
LeaseOne_NoFsdbArm(item) ==
  /\ SetLmdb(item.entry_type,
             LmdbLease(Lmdb(item.entry_type), item.digest.hash, now))
  /\ UNCHANGED file_fsdb

\* The lease of an item on the backend the routing predicate selects.
LeaseOne(item) ==
  IF should_use_fsdb(item.entry_type, item.digest.size_bytes)
  THEN /\ file_fsdb' = FsdbLease(file_fsdb, item.digest.hash, now)
       /\ UNCHANGED <<file_lmdb, directory_lmdb>>
  ELSE /\ SetLmdb(item.entry_type,
                  LmdbLease(Lmdb(item.entry_type), item.digest.hash, now))
       /\ UNCHANGED file_fsdb

\* One turn of `for (digest, entry_type) in digests` for the call t of
\* process p: the lease of the next item, then the next turn or the return.
\* `done` is kept for the properties: the items leased so far.
LeaseTurn(p, t) ==
  IF t.items = <<>>
  THEN /\ Return(p, Returned(t, TRUE))
       /\ UNCHANGED <<file_lmdb, directory_lmdb, file_fsdb>>
  ELSE IF ~LeaseOk(Head(t.items))
  THEN /\ Return(p, [Returned(t, FALSE) EXCEPT !.items = t.items,
                                               !.done = t.done])
       /\ UNCHANGED <<file_lmdb, directory_lmdb, file_fsdb>>
  ELSE /\ LeaseOne(Head(t.items))
       /\ IF Tail(t.items) = <<>>
          THEN Return(p, [Returned(t, TRUE) EXCEPT
                            !.done = Append(t.done, Head(t.items))])
          ELSE /\ task' = [task EXCEPT ![p] =
                             [t EXCEPT !.items = Tail(t.items),
                                       !.done = Append(t.done, Head(t.items)),
                                       !.pc = "lease_loop"]]
               /\ UNCHANGED last

\* ByteStore::lease_all, up to the end of its first lease.
LeaseAll(p, items) ==
  LET first == IF items = <<>> THEN LeaseItem(EMPTY_DIGEST, File)
               ELSE Head(items)
      t == [NewTask("lease_all", first.entry_type, first.digest)
              EXCEPT !.items = items]
  IN
  /\ Begin(p)
  /\ UNCHANGED <<now, tmp_leaked, src, acked, mutations>>
  /\ LeaseTurn(p, t)

\* ByteStore::lease_all, a later turn of its loop.
LeaseStep(p) ==
  /\ task[p].pc = "lease_loop"
  /\ UNCHANGED <<now, tmp_leaked, src, acked, calls, shrinks, mutations>>
  /\ LeaseTurn(p, task[p])

(***************************************************************************)
(* ByteStore::shrink                                                       *)
(***************************************************************************)
\* An entry of fingerprints_by_expired_ago.  `elapsed` and `backend` are kept
\* for the properties: the ticks since the entry's lease began, and the
\* backend whose listing the entry comes from.
HeapEntry(aged_fingerprint, entry_type, elapsed, backend) ==
  [aged |-> aged_fingerprint, entry_type |-> entry_type, elapsed |-> elapsed,
   backend |-> backend]

\* The ticks since the lease of a KV entry began (an entry stored without a
\* lease has lease_until = 0), and since an FSDB file was written or leased.
LmdbElapsed(lmdb, fingerprint) ==
  now - lmdb.db[fingerprint].lease_until + lease_time

FsdbElapsed(fingerprint) == now - file_fsdb[fingerprint].mtime

\* The three `extend`s of fingerprints_by_expired_ago.
ShrinkSnapshot ==
  {HeapEntry(a, File, LmdbElapsed(file_lmdb, a.fingerprint), "file_lmdb") :
     a \in LmdbAgedFingerprints(file_lmdb, now)}
    \cup {HeapEntry(a, Directory, LmdbElapsed(directory_lmdb, a.fingerprint),
                     "directory_lmdb") :
            a \in LmdbAgedFingerprints(directory_lmdb, now)}
    \cup {HeapEntry(a, File, FsdbElapsed(a.fingerprint), "file_fsdb") :
            a \in FsdbAgedFingerprints(now)}

\* used_bytes counted as 512 KiB an entry, not from the sizes listed.
SumSizes_PerEntry(entries) == Cardinality(entries) * LARGE_FILE_SIZE_LIMIT

RECURSIVE SumSizes(_)
SumSizes(entries) ==
  IF entries = {} THEN 0
  ELSE LET e == CHOOSE x \in entries : TRUE
       IN e.aged.size_bytes + SumSizes(entries \ {e})

\* BinaryHeap::pop over the reverse order: the least expired entry first.
Poppable_Least(heap) ==
  {e \in heap : \A o \in heap :
     o.aged.expired_seconds_ago >= e.aged.expired_seconds_ago}

\* What BinaryHeap::pop may return: an entry no other entry is older than.
Poppable(heap) ==
  {e \in heap : \A o \in heap :
     o.aged.expired_seconds_ago <= e.aged.expired_seconds_ago}

\* A loop that never stops at a leased entry.
LeaseWall_Never(entry) == FALSE

\* Whether the entry just popped ends the loop with `return Ok(used_bytes)`.
LeaseWall(entry) == entry.aged.expired_seconds_ago = 0

\* Whether the code after the loop compacts.
Compacts(shrink_behavior_is_compact) == shrink_behavior_is_compact

ShrinkReturn(t, used_bytes, compacted, heap) ==
  [Returned(t, TRUE) EXCEPT !.used_bytes = used_bytes,
                            !.target_bytes = t.target_bytes,
                            !.flag = compacted,
                            !.snapshot = t.snapshot,
                            !.heap = heap,
                            !.at = t.at]

Targets == {0, LARGE_FILE_SIZE_LIMIT}

\* The snapshot of the three backends, up to the first test of the loop.
Shrink(p, target_bytes, compact) ==
  LET heap == ShrinkSnapshot
      used_bytes == SumSizes(heap)
      t == [NewTask("shrink", File, EMPTY_DIGEST)
              EXCEPT !.target_bytes = target_bytes, !.compact = compact,
                     !.heap = heap, !.snapshot = heap,
                     !.used_bytes = used_bytes,
                     !.at = At(p, calls + shrinks + 1)]
  IN
  /\ BeginShrink(p)
  /\ UNCHANGED <<now, store_vars, src, acked, mutations>>
  /\ IF ~file_lmdb.open \/ ~directory_lmdb.open \/ ~FsdbAgedOk
     THEN Return(p, Returned([t EXCEPT !.snapshot = {}], FALSE))
     ELSE IF used_bytes > target_bytes
     THEN /\ task' = [task EXCEPT ![p] = [t EXCEPT !.pc = "shrink_loop"]]
          /\ UNCHANGED last
     ELSE Return(p, ShrinkReturn(t, used_bytes, Compacts(compact), heap))

\* One turn of `while used_bytes > target_bytes`, up to the next test.
ShrinkStep(p) ==
  LET t == task[p]
  IN
  /\ t.pc = "shrink_loop"
  /\ UNCHANGED <<now, tmp_leaked, src, calls, shrinks, mutations>>
  /\ IF t.heap = {}
     THEN \* `.expect(..)` panics
          /\ Return(p, [Returned(t, FALSE) EXCEPT !.panicked = TRUE])
          /\ UNCHANGED <<file_lmdb, directory_lmdb, file_fsdb, acked>>
     ELSE \E e \in Poppable(t.heap) :
       LET digest == Digest(e.aged.fingerprint, e.aged.size_bytes)
           used_bytes == t.used_bytes - e.aged.size_bytes
       IN
       IF LeaseWall(e)
       THEN /\ Return(p, ShrinkReturn(t, t.used_bytes, FALSE, t.heap))
            /\ UNCHANGED <<file_lmdb, directory_lmdb, file_fsdb, acked>>
       ELSE IF ~RemoveOk(e.entry_type, digest)
       THEN /\ Return(p, Returned(t, FALSE))
            /\ UNCHANGED <<file_lmdb, directory_lmdb, file_fsdb, acked>>
       ELSE /\ RemoveFrom(e.entry_type, digest)
            /\ IF used_bytes > t.target_bytes
               THEN /\ task' = [task EXCEPT ![p].heap = t.heap \ {e},
                                            ![p].used_bytes = used_bytes]
                    /\ UNCHANGED last
               ELSE Return(p, ShrinkReturn(t, used_bytes, Compacts(t.compact),
                                           t.heap \ {e}))

(***************************************************************************)
(* The queries of the router.                                              *)
(***************************************************************************)
\* get_missing_digests asking the KV database alone, not the FSDB.
get_missing_digests_LmdbOnly(entry_type, digests) ==
  LET lmdb_digests == {d \in digests : d # EMPTY_DIGEST}
      existing ==
        LmdbExistsBatch(Lmdb(entry_type), {d.hash : d \in lmdb_digests})
  IN IF ~Lmdb(entry_type).open THEN ErrResult
     ELSE [ok |-> TRUE,
           missing |-> {d \in digests :
                          d # EMPTY_DIGEST /\ d.hash \notin existing}]

\* ByteStore::get_missing_digests
get_missing_digests(entry_type, digests) ==
  LET fsdb_digests ==
        {d \in digests : should_use_fsdb(entry_type, d.size_bytes)}
      lmdb_digests == {d \in digests \ fsdb_digests : d # EMPTY_DIGEST}
      existing ==
        FsdbExistsBatch({d.hash : d \in fsdb_digests})
          \cup LmdbExistsBatch(Lmdb(entry_type), {d.hash : d \in lmdb_digests})
  IN IF ~Lmdb(entry_type).open THEN ErrResult
     ELSE [ok |-> TRUE,
           missing |-> {d \in digests :
                          d # EMPTY_DIGEST /\ d.hash \notin existing}]

\* entry_type with the arms for the file databases before the arm for the
\* directory database.
entry_type_of_FileFirst(fingerprint) ==
  IF fingerprint = EMPTY_DIGEST.hash
  THEN [ok |-> TRUE, some |-> TRUE, entry_type |-> Directory]
  ELSE IF ~directory_lmdb.open \/ ~file_lmdb.open THEN ErrResult
  ELSE IF file_lmdb.db[fingerprint].present \/ file_fsdb[fingerprint].exists
  THEN [ok |-> TRUE, some |-> TRUE, entry_type |-> File]
  ELSE IF directory_lmdb.db[fingerprint].present
  THEN [ok |-> TRUE, some |-> TRUE, entry_type |-> Directory]
  ELSE NoneResult

\* ByteStore::entry_type
entry_type_of(fingerprint) ==
  IF fingerprint = EMPTY_DIGEST.hash
  THEN [ok |-> TRUE, some |-> TRUE, entry_type |-> Directory]
  ELSE IF ~directory_lmdb.open \/ ~file_lmdb.open THEN ErrResult
  ELSE IF directory_lmdb.db[fingerprint].present
  THEN [ok |-> TRUE, some |-> TRUE, entry_type |-> Directory]
  ELSE IF file_lmdb.db[fingerprint].present \/ file_fsdb[fingerprint].exists
  THEN [ok |-> TRUE, some |-> TRUE, entry_type |-> File]
  ELSE NoneResult

\* The digests a query is asked about: those of the byte strings, and for
\* each hash a digest of another size that routes to the other tier.
QueryDigests ==
  {EMPTY_DIGEST, DigestOf(SmallBytes), DigestOf(LimitBytes),
   Digest(Sha256(SmallBytes), LARGE_FILE_SIZE_LIMIT),
   Digest(Sha256(LimitBytes), LARGE_FILE_SIZE_LIMIT - 1)}

\* The digests load_bytes_with is asked for: those above, and two whose size
\* is wrong on the same side of the threshold as the right one.
LoadDigests ==
  QueryDigests \cup {Digest(Sha256(SmallBytes), 0),
                     Digest(Sha256(LimitBytes), 2 * LARGE_FILE_SIZE_LIMIT)}

MaxQuerySet == 3
QuerySets == {S \in SUBSET QueryDigests : Cardinality(S) <= MaxQuerySet}

\* ShardedLmdb::all_digests and UnderlyingByteStore::all_digests of the FSDB:
\* the listing with the ages stripped.
LmdbAllDigests(lmdb) ==
  {Digest(a.fingerprint, a.size_bytes) : a \in LmdbAgedFingerprints(lmdb, now)}

FsdbAllDigests ==
  {Digest(a.fingerprint, a.size_bytes) : a \in FsdbAgedFingerprints(now)}

\* ByteStore::all_digests (the Vec it returns as a set)
all_digests(entry_type) ==
  IF ~Lmdb(entry_type).open THEN ErrResult
  ELSE IF ~FsdbAgedOk THEN ErrResult
  ELSE [ok |-> TRUE,
        digests |-> LmdbAllDigests(Lmdb(entry_type)) \cup FsdbAllDigests]

GetMissingDigests(p, entry_type, digests) ==
  LET t == NewTask("get_missing_digests", entry_type, EMPTY_DIGEST)
      r == get_missing_digests(entry_type, digests)
  IN
  /\ BeginQuery(p)
  /\ Return(p, [Returned(t, r.ok) EXCEPT
                  !.digests = digests,
                  !.result = IF r.ok THEN r.missing ELSE {}])
  /\ UNCHANGED <<now, store_vars, src, acked, mutations>>

LoadBytesWith(p, entry_type, digest) ==
  LET t == NewTask("load_bytes_with", entry_type, digest)
      r == load_bytes_with(entry_type, digest)
  IN
  /\ BeginQuery(p)
  /\ Return(p, [Returned(t, r.ok) EXCEPT
                  !.flag = r.ok /\ r.some,
                  !.result = IF r.ok /\ r.some THEN {r.bytes} ELSE {}])
  /\ UNCHANGED <<now, store_vars, src, acked, mutations>>

AllDigests(p, entry_type) ==
  LET t == NewTask("all_digests", entry_type, EMPTY_DIGEST)
      r == all_digests(entry_type)
  IN
  /\ BeginQuery(p)
  /\ Return(p, [Returned(t, r.ok) EXCEPT
                  !.result = IF r.ok THEN r.digests ELSE {}])
  /\ UNCHANGED <<now, store_vars, src, acked, mutations>>

QueryEntryType(p, fingerprint) ==
  LET t == NewTask("entry_type", File, Digest(fingerprint, 0))
      r == entry_type_of(fingerprint)
  IN
  /\ BeginQuery(p)
  /\ Return(p, [Returned(t, r.ok) EXCEPT
                  !.flag = r.ok /\ r.some,
                  !.result = IF r.ok /\ r.some THEN {r.entry_type} ELSE {}])
  /\ UNCHANGED <<now, store_vars, src, acked, mutations>>

(***************************************************************************)
(* The specifications.                                                     *)
(***************************************************************************)
DigestArgs == {DigestOf(b) : b \in Bytes}

\* The byte strings stored where the clock runs and where queries are made.
FewBytes == {EmptyBytes, SmallBytes, LimitBytes}

StoreBytesOf(inputs) ==
  \E p \in Procs, entry_type \in EntryType, bytes \in inputs,
     initial_lease \in BOOLEAN :
    StoreBytes(p, entry_type, bytes, initial_lease)

FsdbSteps ==
  \/ \E p \in Procs : GetTempfile(p)
  \/ \E p \in Procs : Open(p)
  \/ \E p \in Procs : WriteAll(p)
  \/ \E p \in Procs : Rename(p)
  \/ \E p \in Procs : SetPermissions(p)

StoresFromPath ==
  \/ \E p \in Procs, entry_type \in EntryType, initial_lease \in BOOLEAN,
        src_is_immutable \in BOOLEAN :
       Store(p, entry_type, initial_lease, src_is_immutable)
  \/ \E p \in Procs : VerifiedCopy(p)
  \/ \E p \in Procs : LmdbStore(p)
  \/ \E bytes \in Bytes : MutateSrc(bytes)

Faults ==
  \/ \E p \in Procs, cancelled \in BOOLEAN : Abort(p, cancelled)
  \/ Crash

RemovesOf(digests) ==
  \E p \in Procs, entry_type \in EntryType, digest \in digests :
    Remove(p, entry_type, digest)

Removes == RemovesOf(DigestArgs)

Evictions ==
  \/ Tick
  \/ \E p \in Procs, entry_type \in EntryType,
        digest \in {DigestOf(b) : b \in FewBytes} :
       LeaseAll(p, <<LeaseItem(digest, entry_type)>>)
  \/ \E p \in Procs, target_bytes \in Targets, compact \in BOOLEAN :
       Shrink(p, target_bytes, compact)
  \/ \E p \in Procs : ShrinkStep(p)

Queries ==
  \/ \E p \in Procs, entry_type \in EntryType, digests \in QuerySets :
       GetMissingDigests(p, entry_type, digests)
  \/ \E p \in Procs, entry_type \in EntryType, digest \in LoadDigests :
       LoadBytesWith(p, entry_type, digest)
  \/ \E p \in Procs, fingerprint \in Fingerprint :
       QueryEntryType(p, fingerprint)
  \/ \E p \in Procs, entry_type \in EntryType : AllDigests(p, entry_type)

\* Stores from memory and from a path, removes, failures and crashes.
Next == StoreBytesOf(Bytes) \/ FsdbSteps \/ StoresFromPath \/ Faults \/ Removes
Spec == Init /\ [][Next]_vars

\* Stores, leases, the clock and shrink.
NextEvict == StoreBytesOf(FewBytes) \/ FsdbSteps \/ Evictions
SpecEvict == Init /\ [][NextEvict]_vars

\* Stores and queries, over KV databases that opened or failed to.
NextQuery == StoreBytesOf(FewBytes) \/ FsdbSteps \/ Queries
SpecQuery == InitPartial /\ [][NextQuery]_vars

\* Stores from a path alone, with the owner of the source rewriting it: no
\* I/O error, no cancellation, so a store fails only by its own decision.
NextCopy ==
  \/ StoresFromPath
  \/ \E p \in Procs : GetTempfile(p)
  \/ \E p \in Procs : Open(p)
  \/ \E p \in Procs : Rename(p)
  \/ \E p \in Procs : SetPermissions(p)
SpecCopy == Init /\ [][NextCopy]_vars

\* The iterators handed to lease_all where its loop is looked at: up to
\* MaxLeaseItems items.
MaxLeaseItems == 3
LeaseItems ==
  {LeaseItem(DigestOf(SmallBytes), File), LeaseItem(DigestOf(LimitBytes), File),
   LeaseItem(DigestOf(LargeBytes), File),
   LeaseItem(DigestOf(SmallBytes), Directory)}
LeaseSeqs ==
  UNION {[1..n -> LeaseItems] : n \in 0..MaxLeaseItems}

\* Stores, the clock and lease_all over several items.
NextLease ==
  \/ StoreBytesOf({SmallBytes, LimitBytes})
  \/ FsdbSteps
  \/ Tick
  \/ \E p \in Procs, items \in LeaseSeqs : LeaseAll(p, items)
  \/ \E p \in Procs : LeaseStep(p)
SpecLease == Init /\ [][NextLease]_vars

\* Stores and removes, over KV databases that opened or failed to.
NextRemove == StoreBytesOf(FewBytes) \/ FsdbSteps \/ RemovesOf(QueryDigests)
SpecRemove == InitPartial /\ [][NextRemove]_vars

(***************************************************************************)
(* Properties.                                                             *)
(***************************************************************************)

Backends == {"file_fsdb", "file_lmdb", "directory_lmdb"}

AckedVia(via) == {a \in acked : a.via = via}

\* A call returned in this step.
ReturnsNow == last'.id # last.id

C2_StoreOkIsStored ==
  \A a \in AckedVia("store") :
    LET r == load_bytes_with(a.kind, DigestOf(a.bytes))
    IN r.ok /\ r.some /\ r.bytes.len = a.bytes.len

\* C3: routing.  Every byte string whose store_bytes returned Ok is present in
\* the backend the routing predicate selects; the FSDB holds only contents of
\* at least LARGE_FILE_SIZE_LIMIT bytes and the file KV database only shorter
\* ones; and a store_bytes call changes no backend but the selected one.
C3_Present ==
  \A a \in AckedVia("store_bytes") :
    Present(Backend(a.kind, a.bytes.len), Sha256(a.bytes))

C3_Tiers ==
  \A f \in Fingerprint :
    /\ file_fsdb[f].exists =>
         /\ Sha256(file_fsdb[f].content) = f
         /\ file_fsdb[f].content.len >= LARGE_FILE_SIZE_LIMIT
    /\ file_lmdb.db[f].present =>
         /\ Sha256(file_lmdb.db[f].bytes) = f
         /\ file_lmdb.db[f].bytes.len < LARGE_FILE_SIZE_LIMIT

BackendState(backend) ==
  CASE backend = "file_fsdb" -> file_fsdb
    [] backend = "file_lmdb" -> file_lmdb
    [] backend = "directory_lmdb" -> directory_lmdb

\* The store_bytes calls that take a step: the one that returns at once, and
\* those between two awaits of the FSDB.
StoreBytesActs(entry_type, len) ==
  \/ /\ ReturnsNow
     /\ calls' # calls
     /\ last'.op = "store_bytes"
     /\ last'.kind = entry_type
     /\ last'.digest.size_bytes = len
  \/ \E p \in Procs :
       /\ task[p].op = "store_bytes"
       /\ task[p].kind = entry_type
       /\ task[p].digest.size_bytes = len
       /\ task'[p] # task[p]
       /\ \A q \in Procs \ {p} : task'[q] = task[q]

C3_Frame ==
  \A entry_type \in EntryType, b \in Bytes :
    StoreBytesActs(entry_type, b.len) =>
      \A backend \in Backends \ {Backend(entry_type, b.len)} :
        BackendState(backend)' = BackendState(backend)

C3_Routing == [](C3_Present /\ C3_Tiers) /\ [][C3_Frame]_vars

\* C3 witness: 524287 bytes stored as File are in the file KV database and not
\* in the FSDB, 524288 bytes stored as File are in the FSDB and not in the
\* file KV database.
C3_Witness ==
  /\ Ack("store_bytes", File, SmallBytes) \in acked
  /\ Ack("store_bytes", File, LimitBytes) \in acked
  /\ Present("file_lmdb", Sha256(SmallBytes))
  /\ ~Present("file_fsdb", Sha256(SmallBytes))
  /\ Present("file_fsdb", Sha256(LimitBytes))
  /\ ~Present("file_lmdb", Sha256(LimitBytes))

\* C6: atomic visibility in the FSDB.  Whatever the interleaving of stores,
\* failures, cancellations and crashes, a file at a final path holds the
\* complete bytes of one writer of that fingerprint; only the rename and the
\* set_permissions of a store (or a remove) change a final path, so a store
\* that ends before its rename leaves it as it was; and a store that returns
\* Ok has left its complete, immutable file there, temp files left behind by
\* earlier stores or not.
C6_Complete ==
  \A f \in Fingerprint :
    file_fsdb[f].exists =>
      /\ file_fsdb[f].content \in Bytes
      /\ file_fsdb[f].content.len > 0
      /\ Sha256(file_fsdb[f].content) = f

C6_OnlyPersistWrites ==
  \A f \in Fingerprint :
    file_fsdb'[f] # file_fsdb[f] =>
      \/ \E p \in Procs :
           /\ task[p].pc \in {"rename", "chmod"}
           /\ task[p].digest.hash = f
           /\ task'[p] # task[p]
      \/ ReturnsNow /\ last'.op \in {"remove", "lease_all"}
      \/ \E p \in Procs : task[p].op = "shrink" /\ task'[p] # task[p]

C6_CompletesNormally ==
  ( /\ ReturnsNow
    /\ last'.ok
    /\ last'.op \in {"store_bytes", "store"}
    /\ should_use_fsdb(last'.kind, last'.digest.size_bytes) )
  => /\ file_fsdb'[last'.digest.hash].exists
     /\ DigestOf(file_fsdb'[last'.digest.hash].content) = last'.digest
     /\ file_fsdb'[last'.digest.hash].mode = MODE_IMMUTABLE

C7_ModeInvariant ==
  \A f \in Fingerprint :
    file_fsdb[f].exists => file_fsdb[f].mode = MODE_IMMUTABLE

C10_EmptyInKvOnly ==
  /\ ~file_fsdb[EMPTY_DIGEST.hash].exists
  /\ \A entry_type \in EntryType :
       Lmdb(entry_type).db[EMPTY_DIGEST.hash].present =>
         Lmdb(entry_type).db[EMPTY_DIGEST.hash].bytes = EmptyBytes

C10_EmptyByStoreOnly ==
  \A entry_type \in EntryType :
    ( /\ ~Lmdb(entry_type).db[EMPTY_DIGEST.hash].present
      /\ Lmdb(entry_type)'.db[EMPTY_DIGEST.hash].present )
    => /\ ReturnsNow
       /\ last'.ok
       /\ last'.op \in {"store_bytes", "store"}
       /\ last'.kind = entry_type
       /\ last'.digest = EMPTY_DIGEST

Stored(entry_type, d) ==
  Present(Backend(entry_type, d.size_bytes), d.hash)

\* A get_missing_digests call returns Ok in this step.
GetMissingReturns ==
  ReturnsNow /\ last'.op = "get_missing_digests" /\ last'.ok

\* C8 (as claimed): get_missing_digests(kind, S) returns exactly the digests of
\* S other than EMPTY_DIGEST that are not stored under kind in the backend the
\* routing predicate selects for them, for every S.
C8_MissingPerDigest ==
  [][GetMissingReturns =>
       last'.result = {d \in last'.digests :
                         d # EMPTY_DIGEST /\ ~Stored(last'.kind, d)}]_vars

\* C8 (amended): get_missing_digests(kind, S) returns exactly the digests d of
\* S other than EMPTY_DIGEST such that no digest of S with the hash of d is
\* stored under kind in the backend the routing predicate selects for it.
\* When no two digests of S have the same hash, that is exactly the digests of
\* S other than EMPTY_DIGEST that are not stored, a superset of S minus the
\* stored digests, and empty when every member of S is stored or EMPTY_DIGEST.
DistinctHashes(S) == \A d \in S, e \in S : d.hash = e.hash => d = e

C8_MissingByHash ==
  [][GetMissingReturns =>
       /\ last'.result =
            {d \in last'.digests :
               /\ d # EMPTY_DIGEST
               /\ \A e \in last'.digests :
                    (e.hash = d.hash /\ e # EMPTY_DIGEST)
                      => ~Stored(last'.kind, e)}
       /\ DistinctHashes(last'.digests) =>
            /\ last'.result = {d \in last'.digests :
                                 d # EMPTY_DIGEST /\ ~Stored(last'.kind, d)}
            /\ ( \A d \in last'.digests :
                   d = EMPTY_DIGEST \/ Stored(last'.kind, d) )
               => last'.result = {}]_vars

\* C8 witness: get_missing_digests(File, {empty, A, B}) returned {B}, with A
\* (524287 bytes, in the file KV database) stored and B (524288 bytes) not.
C8_Witness ==
  /\ last.op = "get_missing_digests" /\ last.ok /\ last.kind = File
  /\ last.digests = {EMPTY_DIGEST, DigestOf(SmallBytes), DigestOf(LimitBytes)}
  /\ Stored(File, DigestOf(SmallBytes))
  /\ ~Stored(File, DigestOf(LimitBytes))
  /\ \A p \in Procs : Idle(p)
  /\ last.result = {DigestOf(LimitBytes)}

\* C9: reads of the empty digest.  In every state of the store, also with
\* nothing stored and with KV databases that did not open,
\* entry_type(EMPTY_DIGEST.hash) is Some(Directory), load_bytes_with(kind,
\* EMPTY_DIGEST, identity) is Some of the empty byte string, and no
\* get_missing_digests result contains EMPTY_DIGEST; the calls return just
\* that.
C9_Operators ==
  /\ entry_type_of(EMPTY_DIGEST.hash) =
       [ok |-> TRUE, some |-> TRUE, entry_type |-> Directory]
  /\ \A entry_type \in EntryType :
       /\ load_bytes_with(entry_type, EMPTY_DIGEST) = SomeResult(EmptyBytes)
       /\ \A S \in QuerySets :
            LET r == get_missing_digests(entry_type, S)
            IN r.ok => EMPTY_DIGEST \notin r.missing

C9_Calls ==
  ReturnsNow =>
    /\ (last'.op = "entry_type" /\ last'.digest.hash = EMPTY_DIGEST.hash)
         => last'.ok /\ last'.result = {Directory}
    /\ (last'.op = "load_bytes_with" /\ last'.digest = EMPTY_DIGEST)
         => last'.ok /\ last'.result = {EmptyBytes}
    /\ last'.op = "get_missing_digests"
         => EMPTY_DIGEST \notin last'.result

C9_EmptyReads == []C9_Operators /\ [][C9_Calls]_vars

\* C9 witness: load_bytes_with(File, EMPTY_DIGEST) returned the empty byte
\* string from a store whose file KV database did not open and which holds
\* nothing under the empty fingerprint.
C9_Witness ==
  /\ last.op = "load_bytes_with" /\ last.ok
  /\ last.kind = File /\ last.digest = EMPTY_DIGEST
  /\ last.result = {EmptyBytes}
  /\ ~file_lmdb.open
  /\ \A backend \in Backends : ~Present(backend, EMPTY_DIGEST.hash)

\* A shrink returns Ok in this step.
ShrinkReturns == ReturnsNow /\ last'.op = "shrink" /\ last'.ok

\* No other call took a step, and the clock did not advance, between the
\* snapshot of the shrink that returns and its return.
Undisturbed == last'.at = At(last'.at.proc, calls' + shrinks')

Expired(e) == e.aged.expired_seconds_ago

\* Whether the backend an entry of the snapshot came from holds it.
Survives(e) ==
  Present(Backend(e.entry_type, e.aged.size_bytes), e.aged.fingerprint)

\* C4: shrink postcondition.  When shrink(T, ..) returns Ok(used): used <= T,
\* or every entry of the snapshot that shrink has not removed has
\* expired_seconds_ago = 0; used is the sum of the sizes of those entries; and
\* if nothing else ran between the snapshot and the return, those entries are
\* exactly what the three backends hold, with the ages of the snapshot.
C4_Post ==
  ShrinkReturns =>
    /\ last'.heap \subseteq last'.snapshot
    /\ last'.used_bytes = SumSizes(last'.heap)
    /\ \/ last'.used_bytes <= last'.target_bytes
       \/ \A e \in last'.heap : Expired(e) = 0
    /\ Undisturbed =>
         /\ ShrinkSnapshot' = last'.heap
         /\ \/ last'.used_bytes <= last'.target_bytes
            \/ \A e \in ShrinkSnapshot' : Expired(e) = 0

C4_ShrinkPostcondition == [][C4_Post]_vars

\* C4 witness: shrink(0) returned Ok(used) with used > 0 at the lease wall,
\* after it removed an expired entry; the backends hold what it left.
C4_Witness ==
  /\ last.op = "shrink" /\ last.ok
  /\ last.target_bytes = 0 /\ last.used_bytes > 0
  /\ last.heap # last.snapshot
  /\ ShrinkSnapshot = last.heap
  /\ \A e \in last.heap : Expired(e) = 0

\* The snapshot of the shrink that returns holds FSDB files only, and no
\* other call was running when it was taken.
OnlyFsdbFiles ==
  /\ \A e \in last'.snapshot : should_use_fsdb(e.entry_type, e.aged.size_bytes)
  /\ \A o \in last'.at.others : o.task.pc = "idle"

\* C5 (as claimed), for the blobs of the FSDB: a blob stored or leased less
\* than lease_time before a shrink reports expired_seconds_ago = 0 and is not
\* removed, so shrink(0) over only such blobs returns their total size and
\* removes nothing; once more than lease_time has elapsed for every blob,
\* shrink(0) removes all of them and returns 0.
C5_AsClaimed ==
  (ShrinkReturns /\ Undisturbed /\ OnlyFsdbFiles) =>
    /\ \A e \in last'.snapshot :
         e.elapsed < lease_time
           => Expired(e) = 0 /\ e \in last'.heap /\ Survives(e)'
    /\ ( /\ last'.target_bytes = 0
         /\ \A e \in last'.snapshot : e.elapsed < lease_time )
       => /\ last'.used_bytes = SumSizes(last'.snapshot)
          /\ ShrinkSnapshot' = last'.snapshot
    /\ ( /\ last'.target_bytes = 0
         /\ \A e \in last'.snapshot : e.elapsed > lease_time )
       => /\ last'.used_bytes = 0
          /\ ShrinkSnapshot' = {}

C5_Amended ==
  ShrinkReturns =>
    /\ \A e \in last'.snapshot :
         /\ e.elapsed < lease_time + TicksPerSec <=> Expired(e) = 0
         /\ Expired(e) = 0 => e \in last'.heap
         /\ (Expired(e) = 0 /\ Undisturbed) => Survives(e)'
    /\ ( /\ last'.target_bytes = 0
         /\ \A e \in last'.snapshot : e.elapsed < lease_time + TicksPerSec )
       => /\ last'.used_bytes = SumSizes(last'.snapshot)
          /\ last'.heap = last'.snapshot
          /\ Undisturbed => ShrinkSnapshot' = last'.snapshot
    /\ ( /\ last'.target_bytes = 0
         /\ \A e \in last'.snapshot : e.elapsed >= lease_time + TicksPerSec )
       => /\ last'.used_bytes = 0
          /\ \A e \in last'.heap : e.aged.size_bytes = 0
          /\ Undisturbed => \A e \in ShrinkSnapshot' : e.aged.size_bytes = 0

C11_Expected(fingerprint) ==
  IF Present("directory_lmdb", fingerprint) THEN {Directory}
  ELSE IF Present("file_lmdb", fingerprint) \/ Present("file_fsdb", fingerprint)
  THEN {File}
  ELSE {}

C11_Operator ==
  \A fingerprint \in Fingerprint \ {EMPTY_DIGEST.hash} :
    LET r == entry_type_of(fingerprint)
    IN /\ r.ok <=> (directory_lmdb.open /\ file_lmdb.open)
       /\ r.ok => /\ r.some <=> C11_Expected(fingerprint) # {}
                  /\ r.some => {r.entry_type} = C11_Expected(fingerprint)

C11_Call ==
  ( /\ ReturnsNow
    /\ last'.op = "entry_type"
    /\ last'.digest.hash # EMPTY_DIGEST.hash )
  => /\ last'.ok <=> (directory_lmdb.open /\ file_lmdb.open)
     /\ last'.ok => last'.result = C11_Expected(last'.digest.hash)

C11_Precedence == []C11_Operator /\ [][C11_Call]_vars

\* C11 witness: one fingerprint was stored in the directory KV database and in
\* the file KV database by two calls, and entry_type returned Some(Directory).
C11_Witness ==
  /\ last.op = "entry_type" /\ last.ok
  /\ last.digest.hash = Sha256(SmallBytes)
  /\ Present("directory_lmdb", Sha256(SmallBytes))
  /\ Present("file_lmdb", Sha256(SmallBytes))
  /\ last.result = {Directory}

\* C12 (as claimed): ShardedFSDB::store makes at most 10 copy attempts for
\* one call: whenever it is about to copy, fewer than 10 copies of this call
\* have been rejected.
C12_AtMostTenCopies ==
  \A p \in Procs :
    (task[p].op = "store" /\ task[p].pc = "copy")
      => task[p].attempts + 1 <= MAX_ATTEMPTS

\* C13 (as claimed): a store of a large File with src_is_immutable = false
\* whose source was rewritten after the hashing pass does not give up: when it
\* ends, it has returned Ok and the final path of the source's hash holds the
\* source's bytes.
C13_GivesUp(p) ==
  /\ task[p].op = "store" /\ task[p].pc = "copy"
  /\ ~task[p].src_is_immutable
  /\ Sha256(src) # task[p].digest.hash
  /\ task'[p].pc = "idle"

C13_RetrySucceeds ==
  [][\A p \in Procs :
       C13_GivesUp(p) =>
         /\ last'.ok
         /\ file_fsdb'[Sha256(src)].exists
         /\ file_fsdb'[Sha256(src)].content = src]_vars


(***************************************************************************)
(* C14: idempotence of store_bytes.                                        *)
(***************************************************************************)
\* The call c2 repeats the call c1: the same arguments, and the next call.
C14_Repeats(c1, c2) ==
  /\ c1.op = "store_bytes" /\ c2.op = "store_bytes"
  /\ c1.ok
  /\ c1.kind = c2.kind
  /\ c1.digest = c2.digest
  /\ c1.initial_lease = c2.initial_lease
  /\ c2.id = c1.id + 1

\* Process p is in a store to the FSDB that repeats the call that returned
\* last, began when nothing else ran, and has run alone since.
C14_Second(p) ==
  /\ InFsdbStore(p)
  /\ C14_Repeats(last, [task[p] EXCEPT !.ok = TRUE])
  /\ \A q \in Procs \ {p} : Idle(q)
  /\ task[p].at.proc = p
  /\ task[p].at.begun = calls + shrinks

\* The second call, to a KV database: one step.
C14_Lmdb ==
  (/\ ReturnsNow
   /\ last'.ok
   /\ C14_Repeats(last, last')
   /\ ~should_use_fsdb(last'.kind, last'.digest.size_bytes))
  => \A entry_type \in {File, Directory} :
       \A fingerprint \in Fingerprint :
         (entry_type = last'.kind /\ fingerprint = last'.digest.hash)
         => LET old == Lmdb(entry_type).db
                new == Lmdb(entry_type).db'
            IN /\ new[fingerprint] =
                    LmdbEntry(BytesOf(last'.digest),
                              IF last'.initial_lease THEN now' + lease_time
                              ELSE IF old[fingerprint].present
                                   THEN old[fingerprint].lease_until ELSE 0)
               /\ \A f \in Fingerprint \ {fingerprint} : new[f] = old[f]
               /\ \A other \in {File, Directory} \ {entry_type} :
                    Lmdb(other)' = Lmdb(other)
               /\ UNCHANGED file_fsdb

\* The second call, to the FSDB: each of its steps.
C14_Fsdb ==
  \A p \in Procs :
    (C14_Second(p) /\ task'[p] # task[p])
    => LET fingerprint == task[p].digest.hash
       IN /\ UNCHANGED <<file_lmdb, directory_lmdb>>
          /\ \A f \in Fingerprint \ {fingerprint} : file_fsdb'[f] = file_fsdb[f]
          /\ (ReturnsNow /\ last'.ok) =>
               /\ file_fsdb'[fingerprint].exists
               /\ file_fsdb'[fingerprint].content = BytesOf(task[p].digest)
               /\ file_fsdb'[fingerprint].mode = MODE_IMMUTABLE
               /\ file_fsdb'[fingerprint].mtime >= task[p].at.now
               /\ file_fsdb'[fingerprint].mtime <= now'

C15_Entries(backend) ==
  CASE backend = "file_fsdb" -> file_fsdb
    [] backend = "file_lmdb" -> file_lmdb.db
    [] backend = "directory_lmdb" -> directory_lmdb.db

\* A remove of (entry_type, digest) returns in this step.
C15_Removes(entry_type, digest) ==
  /\ ReturnsNow
  /\ last'.op = "remove"
  /\ last'.kind = entry_type
  /\ last'.digest = digest

\* What a remove does whatever it returns: it leaves the other backends and
\* the other entries as they are, and returns Ok(true) exactly when the entry
\* was in the selected backend and is no longer.
C15_Effect(entry_type, digest) ==
  LET backend == Backend(entry_type, digest.size_bytes)
  IN /\ \A other \in Backends \ {backend} :
          BackendState(other)' = BackendState(other)
     /\ \A f \in Fingerprint \ {digest.hash} :
          C15_Entries(backend)'[f] = C15_Entries(backend)[f]
     /\ (last'.ok /\ last'.flag) <=>
          (Present(backend, digest.hash) /\ ~Present(backend, digest.hash)')

\* As claimed: a remove of an absent entry returns Ok(false), never an error.
C15_AsClaimed ==
  [][\A entry_type \in EntryType, digest \in QueryDigests :
       C15_Removes(entry_type, digest) =>
         /\ C15_Effect(entry_type, digest)
         /\ ~Present(Backend(entry_type, digest.size_bytes), digest.hash)
              => (last'.ok /\ ~last'.flag)]_vars

\* C15: remove(kind, digest) acts only on the backend the routing predicate
\* selects and returns Ok(true) iff the entry was there before the call and is
\* gone after it; every other entry and every other backend is left unchanged;
\* removing an absent entry returns Ok(false) from the FSDB and from a KV
\* database that opened, and the error of its opening from a KV database that
\* did not.
C15_Amended ==
  [][\A entry_type \in EntryType, digest \in QueryDigests :
       C15_Removes(entry_type, digest) =>
         /\ C15_Effect(entry_type, digest)
         /\ ~Present(Backend(entry_type, digest.size_bytes), digest.hash)
              => IF \/ Backend(entry_type, digest.size_bytes) = "file_fsdb"
                    \/ Lmdb(entry_type).open
                 THEN last'.ok /\ ~last'.flag
                 ELSE ~last'.ok]_vars

\* 512 KiB stored as File were removed with Ok(true): the FSDB holds nothing
\* under the fingerprint.
C15_Witness ==
  /\ last.op = "remove"
  /\ last.kind = File
  /\ last.digest = DigestOf(LimitBytes)
  /\ last.ok /\ last.flag
  /\ ~file_fsdb[Sha256(LimitBytes)].exists


(***************************************************************************)
(* C16: the length check of load_bytes_with.                               *)
(***************************************************************************)
\* The bytes a backend holds under a fingerprint.
C16_Held(backend, fingerprint) ==
  CASE backend = "file_fsdb" ->
         IF file_fsdb[fingerprint].exists
         THEN {file_fsdb[fingerprint].content} ELSE {}
    [] backend = "file_lmdb" ->
         IF file_lmdb.db[fingerprint].present
         THEN {file_lmdb.db[fingerprint].bytes} ELSE {}
    [] backend = "directory_lmdb" ->
         IF directory_lmdb.db[fingerprint].present
         THEN {directory_lmdb.db[fingerprint].bytes} ELSE {}

\* The backends that hold the entries of a kind.
C16_BackendsOf(entry_type) ==
  IF entry_type = Directory THEN {"directory_lmdb"}
  ELSE {"file_lmdb", "file_fsdb"}

\* Whether the backend selected for (entry_type, digest) can be read.
C16_Readable(entry_type, digest) ==
  should_use_fsdb(entry_type, digest.size_bytes) \/ Lmdb(entry_type).open

\* What the length check gives for the result r of a read of `digest` from
\* the backend selected for it.
C16_Checked(entry_type, digest, r) ==
  LET held == C16_Held(Backend(entry_type, digest.size_bytes), digest.hash)
  IN IF ~C16_Readable(entry_type, digest) THEN ~r.ok
     ELSE /\ \A b \in held :
               IF b.len = digest.size_bytes
               THEN r = SomeResult(b)
               ELSE ~r.ok
          /\ held = {} => r = NoneResult

\* None only when no backend of the kind holds bytes under the hash.
C16_NoneOnlyWhenAbsent(entry_type, digest, r) ==
  (r.ok /\ ~r.some) =>
    \A backend \in C16_BackendsOf(entry_type) :
      C16_Held(backend, digest.hash) = {}

\* The result of the call that returns in this step.
C16_Result ==
  IF ~last'.ok THEN ErrResult
  ELSE IF last'.flag THEN SomeResult(CHOOSE b \in last'.result : TRUE)
  ELSE NoneResult

C16_Loads(entry_type, digest) ==
  /\ ReturnsNow
  /\ last'.op = "load_bytes_with"
  /\ last'.kind = entry_type
  /\ last'.digest = digest

C17_HeapAfter(p) ==
  IF task'[p].pc = "shrink_loop" THEN task'[p].heap
  ELSE IF last'.ok THEN last'.heap
  ELSE task[p].heap

\* The entries the shrink of process p takes out in this step.
C17_Evicted(p) == task[p].heap \ C17_HeapAfter(p)

C17_Step(p) ==
  (task[p].pc = "shrink_loop" /\ task'[p] # task[p]) =>
    /\ Cardinality(C17_Evicted(p)) <= 1
    /\ C17_Evicted(p) = {} =>
         \A backend \in Backends : BackendState(backend)' = BackendState(backend)
    /\ \A e \in C17_Evicted(p) :
         /\ Expired(e) > 0
         /\ \A o \in task[p].heap : Expired(o) <= Expired(e)
         /\ ~Present(e.backend, e.aged.fingerprint)'
         /\ \A f \in Fingerprint \ {e.aged.fingerprint} :
              C15_Entries(e.backend)'[f] = C15_Entries(e.backend)[f]
         /\ \A backend \in Backends \ {e.backend} :
              BackendState(backend)' = BackendState(backend)

\* C17: in one shrink call every entry removed has the largest
\* expired_seconds_ago of the entries of the three backends the call has not
\* removed yet, so entries go in non-increasing order of expired_seconds_ago;
\* no entry with expired_seconds_ago = 0 is removed; and a victim is removed
\* from the backend that listed it, nothing else being touched.
C17_EvictionOrder == [][\A p \in Procs : C17_Step(p)]_vars

\* A shrink removed an entry expired for longer and kept one expired for less,
\* from another backend.
C17_Witness ==
  /\ last.op = "shrink"
  /\ last.ok
  /\ \E e \in last.snapshot \ last.heap, o \in last.heap :
       /\ Expired(e) > Expired(o)
       /\ Expired(o) > 0
       /\ e.backend # o.backend
       /\ ~Present(e.backend, e.aged.fingerprint)
       /\ Present(o.backend, o.aged.fingerprint)


(***************************************************************************)
(* C18: the loop of shrink makes progress and ends.                        *)
(***************************************************************************)
\* At the test of the loop: used_bytes is the sum of the sizes still in the
\* heap, so the heap is not empty when the loop is entered again.
C18_AtTest ==
  \A p \in Procs :
    task[p].pc = "shrink_loop" =>
      /\ task[p].heap \subseteq task[p].snapshot
      /\ task[p].used_bytes = SumSizes(task[p].heap)
      /\ task[p].used_bytes > task[p].target_bytes
      /\ task[p].heap # {}

\* One turn of the loop: it takes one entry out of the heap, or returns at the
\* lease wall; it does not panic.
C18_Turn(p) ==
  (task[p].pc = "shrink_loop" /\ task'[p] # task[p]) =>
    /\ ReturnsNow => (last'.ok /\ ~last'.panicked)
    /\ \/ /\ Cardinality(C17_HeapAfter(p)) = Cardinality(task[p].heap) - 1
          /\ C17_HeapAfter(p) \subseteq task[p].heap
       \/ /\ ReturnsNow
          /\ last'.heap = task[p].heap
          /\ \A e \in task[p].heap : Expired(e) = 0

C19_CompactsWhenAsked ==
  [][\A p \in Procs :
       (/\ task[p].pc = "shrink_loop"
        /\ ReturnsNow
        /\ last'.id = task[p].id
        /\ last'.ok)
       => (last'.flag <=> task[p].compact)]_vars


(***************************************************************************)
(* C20: what ShardedFSDB::store renames to the final path.                 *)
(***************************************************************************)
\* Process p is in a store from a source that may change.
C20_Copies(p) == task[p].op = "store" /\ ~task[p].src_is_immutable

C20_Rename(p) ==
  (C20_Copies(p) /\ task[p].pc = "rename" /\ task'[p].pc = "chmod") =>
    LET file == file_fsdb'[task[p].digest.hash]
    IN /\ file.exists
       /\ Sha256(file.content) = task[p].digest.hash
       /\ file.content.len = task[p].digest.size_bytes
       /\ file.content = task[p].tmp.content

\* C20: whenever ShardedFSDB::store with src_is_immutable = false renames a
\* file to its final path, the content of the file hashes to expected_digest
\* and has its length, however the source was rewritten meanwhile and however
\* many copies were rejected before; nothing of a rejected copy is in it.
C20_ContentIntegrity == [][\A p \in Procs : C20_Rename(p)]_vars

\* A store whose first copy was rejected, the source having been rewritten
\* and then restored, has renamed its file.
C20_Witness ==
  \E p \in Procs :
    /\ C20_Copies(p)
    /\ task[p].pc = "chmod"
    /\ task[p].attempts >= 1
    /\ mutations = 2
    /\ file_fsdb[task[p].digest.hash].exists
    /\ Sha256(file_fsdb[task[p].digest.hash].content) = task[p].digest.hash


(***************************************************************************)
(* C21: lease_all.                                                         *)
(***************************************************************************)
\* The lease_all of process p takes a turn of its loop in this step: its
\* first, with the call, or a later one.
C21_Begins(p) ==
  /\ Idle(p)
  /\ p = "p1" \/ ~Idle("p1")
  /\ calls' # calls
  /\ \/ task'[p].op = "lease_all"
     \/ task'[p] = task[p] /\ ReturnsNow /\ last'.op = "lease_all"

C21_Loops(p) == task[p].pc = "lease_loop" /\ task'[p] # task[p]

\* The items leased before the turn, and the call after it.
C21_DoneBefore(p) == IF C21_Loops(p) THEN task[p].done ELSE <<>>
C21_After(p) == IF task'[p].pc = "lease_loop" THEN task'[p] ELSE last'

\* The lease of an item has been extended to the instant of this step.
C21_Extended(item) ==
  LET backend == Backend(item.entry_type, item.digest.size_bytes)
      fingerprint == item.digest.hash
  IN /\ backend = "file_fsdb" =>
          /\ file_fsdb[fingerprint].exists
          /\ file_fsdb'[fingerprint] =
               [file_fsdb[fingerprint] EXCEPT !.mtime = now]
     /\ backend # "file_fsdb" =>
          C15_Entries(backend)'[fingerprint] =
            IF C15_Entries(backend)[fingerprint].present
            THEN [C15_Entries(backend)[fingerprint]
                    EXCEPT !.lease_until = now + lease_time]
            ELSE C15_Entries(backend)[fingerprint]
     /\ \A f \in Fingerprint \ {fingerprint} :
          C15_Entries(backend)'[f] = C15_Entries(backend)[f]
     /\ \A other \in Backends \ {backend} :
          BackendState(other)' = BackendState(other)

C21_Untouched ==
  \A backend \in Backends : BackendState(backend)' = BackendState(backend)

C21_Turn(p) ==
  (C21_Begins(p) \/ C21_Loops(p)) =>
    LET before == C21_DoneBefore(p)
        after == C21_After(p)
        all == after.done \o after.items
        n == Len(before)
    IN /\ C21_Loops(p) => task[p].done \o task[p].items = all
       /\ IF n < Len(all) /\ Len(after.done) = n + 1
          THEN \* the next item in iteration order was leased
               /\ \A item \in LeaseItems :
                    item = all[n + 1] => C21_Extended(item)
               /\ (task'[p].pc = "lease_loop") <=> (after.items # <<>>)
               /\ task'[p].pc # "lease_loop" => (ReturnsNow /\ last'.ok)
          ELSE \* nothing was leased: the iterator was empty, or the next
               \* item gave the error the call returns
               /\ after.done = before
               /\ C21_Untouched
               /\ ReturnsNow
               /\ task'[p].pc = "idle"
               /\ last'.ok <=> (all = <<>>)
       /\ \* an FSDB item that is not there is an error
          (/\ n < Len(all)
           /\ Backend(all[n + 1].entry_type, all[n + 1].digest.size_bytes)
                = "file_fsdb"
           /\ ~file_fsdb[all[n + 1].digest.hash].exists)
          => (ReturnsNow /\ ~last'.ok /\ after.done = before)

\* C21: lease_all leases its items in iteration order, each on the backend the
\* routing predicate selects, touching nothing else; an item routed to the
\* FSDB whose file is not there is an error; at the first error the call
\* returns it, the items before it leased and the items from it on untouched.
C21_LeaseAll == [][\A p \in Procs : C21_Turn(p)]_vars

\* A lease_all over an FSDB file, an FSDB digest that is not stored and the
\* file again leased the file, failed at the second item some time later and
\* left the file's lease where its first turn had put it.
C21_Witness ==
  /\ last.op = "lease_all"
  /\ ~last.ok
  /\ last.done = <<LeaseItem(DigestOf(LimitBytes), File)>>
  /\ last.items = <<LeaseItem(DigestOf(LargeBytes), File),
                    LeaseItem(DigestOf(LimitBytes), File)>>
  /\ file_fsdb[Sha256(LimitBytes)].exists
  /\ file_fsdb[Sha256(LimitBytes)].mtime > StartTime
  /\ file_fsdb[Sha256(LimitBytes)].mtime < now


(***************************************************************************)
(* C22: temp files in the shard directories.                               *)
(***************************************************************************)
\* C22: a temp file in a shard directory of the FSDB, of a store in flight or
\* left by one that was cancelled, makes no other operation fail: a shrink or
\* an all_digests that finds both KV databases open returns Ok.
C22_TempFilesIgnored ==
  [][(/\ ReturnsNow
      /\ last'.op \in {"shrink", "all_digests"}
      /\ file_lmdb.open /\ directory_lmdb.open
      /\ ~last'.panicked)
     => last'.ok]_vars


(***************************************************************************)
(* C23: a KV database that failed to open.                                 *)
(***************************************************************************)
\* C23: with a KV database that failed to open, an operation routed entirely
\* to the other backends succeeds as usual: a store_bytes of a File blob of
\* 512 KiB or more, which the routing predicate sends to the FSDB, returns Ok
\* whether or not the file KV database opened.
C23_FsdbServesWithoutKv ==
  [][(/\ ReturnsNow
      /\ last'.op = "store_bytes"
      /\ should_use_fsdb(last'.kind, last'.digest.size_bytes))
     => last'.ok]_vars


(***************************************************************************)
(* C24: all_digests.                                                       *)
(***************************************************************************)
\* The digests of the entries stored under a kind.
C24_StoredUnder(entry_type) ==
  UNION {UNION {{Digest(f, b.len) : b \in C16_Held(backend, f)} :
                  backend \in C16_BackendsOf(entry_type)} :
           f \in Fingerprint}

\* C24: all_digests(kind) returns exactly the digests of the entries stored
\* under the kind: for Directory those of the directory KV database alone, for
\* File those of the file KV database and of the FSDB; a blob stored as File
\* is not in all_digests(Directory).
C24_AllDigestsOfKind ==
  [][\A entry_type \in EntryType :
       (/\ ReturnsNow
        /\ last'.op = "all_digests"
        /\ last'.kind = entry_type
        /\ last'.ok)
       => last'.result = C24_StoredUnder(entry_type)]_vars

====
